---- MODULE Spec2Model ----
(***************************************************************************)
(* MicroMart backend: the store application (products, carts, orders) and *)
(* the authentication application (registration, login).  The database     *)
(* tables are the state; every request handler of store/views.py and of    *)
(* authentication/views.py is one action.                                  *)
(***************************************************************************)
EXTENDS Integers, FiniteSets, Sequences, TLC

\* ---------------------------------------------------------------- bounds
MaxStock == 2      \* largest stock value a product takes in the model
MaxQty == 2        \* largest quantity / change_by a client sends
MaxNeg == 1        \* clients also send quantities down to -MaxNeg
MaxPrice == 2      \* largest product price (whole currency units)
MaxOrders == 1     \* number of orders placed in one behaviour
MaxInFlight == 2   \* number of orders placed by overlapping checkouts
MaxAddStock == 3   \* largest stock while add_item requests overlap

Users == {"u1", "u2"}
Products == {"p1", "p2"}
Staff == "admin"

\* the value of an id without a Product row
NoProduct == [price |-> 0 - 1, stock |-> 0]
Qtys == (0 - MaxNeg)..MaxQty
Changes == 0..MaxQty
\* the adjust requests clients send: both actions with every change_by,
\* and one with an action that is no choice of the serializer
AdjustInputs ==
  [action : {"increment", "decrement"}, change_by : Changes]
    \cup {[action |-> "other", change_by |-> 1]}
\* the product payloads staff send: every valid one, one with a price
\* under the minimum and one with a negative stock
\* the values registration and login requests carry
Emails == {"e1", "e2"}
Passwords == {"pw1", "pw2"}
\* a field the request does not carry
NoInput == "none"

ProductInputs ==
  [price : 1..MaxPrice, stock : 0..MaxStock]
    \cup {[price |-> 0, stock |-> 0], [price |-> 1, stock |-> 0 - 1]}

VARIABLES
  products,     \* Product table: id -> row, NoProduct when there is no row
  carts,        \* Cart table: the users that own a Cart row
  cartItems,    \* CartItem table: rows [cart, product_id, quantity]
  orders,       \* Order table: rows [id, user, total_amount, status]
  orderItems,   \* OrderItem table
  nextOrderId,  \* the Order table's auto-increment primary key
  resp,         \* the response to the last request
  txn,          \* per user, the checkout request in flight and its locals
  accounts,     \* User table: rows [username, email, password]
  names,        \* Product.name of every product id
  adds          \* per worker, the add_item request it serves and its locals

vars ==
  <<products, carts, cartItems, orders, orderItems, nextOrderId, resp, txn,
    accounts, names, adds>>

db == <<products, carts, cartItems, orders, orderItems, nextOrderId>>

\* ------------------------------------------------------------- helpers
Exists(p) == products[p] # NoProduct

\* Product.name of the row with id p
ProductName(p) == names[p]

ItemsOf(u) == {ci \in cartItems : ci.cart = u}

ItemsFor(u, p) == {ci \in cartItems : ci.cart = u /\ ci.product_id = p}

ItemOf(u, p) == CHOOSE ci \in cartItems : ci.cart = u /\ ci.product_id = p

\* what the model keeps of a response: the handler that ran and its status
Response(op, u, p, n, st) == [op |-> op, status |-> st]

RECURSIVE SumOver(_, _)
SumOver(S, inst) ==
  IF S = {} THEN 0
  ELSE LET x == CHOOSE y \in S : TRUE
       IN  x.quantity * inst[x.product_id].price + SumOver(S \ {x}, inst)

\* CartViewSet.get_cart: get_or_create of the caller's Cart row
get_cart(u) == carts \cup {u}

\* no checkout in flight: no cart rows and no product instances are held
Idle == [pc |-> "idle", items |-> {}, inst |-> [p \in Products |-> NoProduct]]

\* the server processes that serve add_item requests side by side
Workers == {"w1", "w2"}

\* a worker that has served no add_item request yet
NoAdd ==
  [pc |-> "idle", user |-> "none", product_id |-> "none", quantity |-> 0,
   read |-> 0, stock |-> 0, status |-> 0]

\* the User row of a customer who registered before the first request
SeedUser(u) ==
  [username |-> u, email |-> IF u = "u1" THEN "e1" ELSE "e2",
   password |-> "pw1"]

\* the database before the first request: the catalog holds a product for
\* every id of PS, and for the ids of OPT or not; the users of CS own a
\* Cart row, the other users of US own one or not yet
InitOn(US, CS, PS, OPT) ==
  /\ products \in [Products -> {NoProduct} \cup
                    [price : 1..MaxPrice, stock : 0..MaxStock]]
  /\ \A p \in Products \ (PS \cup OPT) : products[p] = NoProduct
  /\ \A p \in PS : products[p] # NoProduct
  /\ carts \in {CS \cup X : X \in SUBSET US}
  /\ cartItems = {}
  /\ orders = {}
  /\ orderItems = {}
  /\ nextOrderId = 1
  /\ resp = [op |-> "none", status |-> 0]
  /\ txn = [u \in Users |-> Idle]
  /\ accounts = {SeedUser(u) : u \in Users}
  /\ names = [p \in Products |-> p]
  /\ adds = [w \in Workers |-> NoAdd]

\* --------------------------------------------------------- CartViewSet
Retrieve(u) ==
  /\ carts' = get_cart(u)
  /\ resp' = Response("retrieve", u, "none", 0, 200)
  /\ UNCHANGED <<products, cartItems, orders, orderItems, nextOrderId, txn,
                     accounts, names, adds>>

\* mutant: a request for exactly the stock is refused
AddItemStatusStrict(stock, q, has, oldq) ==
  IF stock <= q THEN 400
  ELSE IF has /\ stock < oldq + q THEN 400
  ELSE 200

\* add_item's two stock checks: the request quantity alone, then (for a
\* product already in the cart) the accumulated quantity
AddItemStatus(stock, q, has, oldq) ==
  IF stock < q THEN 400
  ELSE IF has /\ stock < oldq + q THEN 400
  ELSE 200

AddItemRows(u, p, q) ==
  IF ItemsFor(u, p) = {}
  THEN cartItems \cup {[cart |-> u, product_id |-> p, quantity |-> q]}
  ELSE (cartItems \ ItemsFor(u, p)) \cup
         {[ci EXCEPT !.quantity = @ + q] : ci \in ItemsFor(u, p)}

\* mutant: a successful add_item takes the quantity out of the stock
AddItemReserving(u, p, q) ==
  LET has  == ItemsFor(u, p) # {}
      oldq == IF has THEN ItemOf(u, p).quantity ELSE 0
      st   == IF ~Exists(p) THEN 404
              ELSE AddItemStatus(products[p].stock, q, has, oldq)
  IN  /\ oldq + q >= 0 - MaxNeg
      /\ resp' = Response("add_item", u, p, q, st)
      /\ carts' = IF Exists(p) /\ ~(products[p].stock < q)
                  THEN get_cart(u) ELSE carts
      /\ cartItems' = IF st = 200 THEN AddItemRows(u, p, q) ELSE cartItems
      /\ products' = IF st = 200
                     THEN [products EXCEPT ![p].stock = @ - q]
                     ELSE products
      /\ UNCHANGED <<orders, orderItems, nextOrderId, txn,
                     accounts, names, adds>>

AddItem(u, p, q) ==
  LET has  == ItemsFor(u, p) # {}
      oldq == IF has THEN ItemOf(u, p).quantity ELSE 0
      st   == IF ~Exists(p) THEN 404
              ELSE AddItemStatus(products[p].stock, q, has, oldq)
  IN  /\ oldq + q >= 0 - MaxNeg
      /\ resp' = Response("add_item", u, p, q, st)
      /\ carts' = IF Exists(p) /\ ~(products[p].stock < q)
                  THEN get_cart(u) ELSE carts
      /\ cartItems' = IF st = 200 THEN AddItemRows(u, p, q) ELSE cartItems
      /\ UNCHANGED <<products, orders, orderItems, nextOrderId, txn,
                     accounts, names, adds>>

\* add_item served by worker w, up to get_or_create: the product row is
\* read and checked against the request quantity, the cart is fetched, and
\* the CartItem row is created or read; a row that was read stays with the
\* worker until AddItemSave
AddItemBegin(w, u, p, q) ==
  LET has  == ItemsFor(u, p) # {}
      st   == IF ~Exists(p) THEN 404
              ELSE IF products[p].stock < q THEN 400
              ELSE 200
      req  == [NoAdd EXCEPT !.user = u, !.product_id = p, !.quantity = q]
  IN  /\ adds[w].pc # "save"
      /\ carts' = IF st = 200 THEN get_cart(u) ELSE carts
      /\ IF st = 200 /\ has
         THEN /\ adds' = [adds EXCEPT ![w] =
                           [req EXCEPT !.pc = "save",
                                       !.read = ItemOf(u, p).quantity,
                                       !.stock = products[p].stock]]
              /\ UNCHANGED <<resp, cartItems>>
         ELSE /\ adds' = [adds EXCEPT ![w] =
                           [req EXCEPT !.pc = "done", !.status = st]]
              /\ resp' = Response("add_item", u, p, q, st)
              /\ cartItems' = IF st = 200 THEN AddItemRows(u, p, q)
                              ELSE cartItems
      /\ UNCHANGED <<products, orders, orderItems, nextOrderId, txn,
                     accounts, names>>

\* mutant: the row is updated in the database, with quantity = quantity + q
AddItemSaveInPlace(w) ==
  LET u    == adds[w].user
      p    == adds[w].product_id
      new  == adds[w].read + adds[w].quantity
      st   == IF adds[w].stock < new THEN 400
              ELSE IF ~Exists(p) THEN 500
              ELSE 200
  IN  /\ adds[w].pc = "save"
      /\ adds' = [adds EXCEPT ![w].pc = "done", ![w].status = st]
      /\ resp' = Response("add_item", u, p, adds[w].quantity, st)
      /\ cartItems' = IF st = 200 THEN AddItemRows(u, p, adds[w].quantity)
                      ELSE cartItems
      /\ UNCHANGED <<products, carts, orders, orderItems, nextOrderId, txn,
                     accounts, names>>

\* the rest of add_item for a row that was read: the accumulated quantity
\* is checked against the stock that was read and cart_item.save() writes
\* the row with the quantity computed from the one that was read; the
\* INSERT that save() falls back to fails when the product is gone
AddItemSave(w) ==
  LET u    == adds[w].user
      p    == adds[w].product_id
      new  == adds[w].read + adds[w].quantity
      st   == IF adds[w].stock < new THEN 400
              ELSE IF ~Exists(p) THEN 500
              ELSE 200
  IN  /\ adds[w].pc = "save"
      /\ adds' = [adds EXCEPT ![w].pc = "done", ![w].status = st]
      /\ resp' = Response("add_item", u, p, adds[w].quantity, st)
      /\ cartItems' = IF st = 200
                      THEN (cartItems \ ItemsFor(u, p)) \cup
                             {[cart |-> u, product_id |-> p,
                               quantity |-> new]}
                      ELSE cartItems
      /\ UNCHANGED <<products, carts, orders, orderItems, nextOrderId, txn,
                     accounts, names>>

\* AdjustCartItemSerializer.is_valid
AdjustValid(p, act, c) ==
  /\ Exists(p)
  /\ act \in {"increment", "decrement"}
  /\ c >= 1

\* mutant: the row is deleted only below 0, so a quantity of 0 is stored
DecrementRowsBelowZero(u, p, c) ==
  LET ci == ItemOf(u, p)
  IN  IF ci.quantity - c < 0
      THEN cartItems \ {ci}
      ELSE (cartItems \ {ci}) \cup {[ci EXCEPT !.quantity = @ - c]}

\* the decrement branch: the row is deleted when the new quantity is
\* below 1, and saved with the new quantity otherwise
DecrementRows(u, p, c) ==
  LET ci == ItemOf(u, p)
  IN  IF ci.quantity - c < 1
      THEN cartItems \ {ci}
      ELSE (cartItems \ {ci}) \cup {[ci EXCEPT !.quantity = @ - c]}

IncrementRows(u, p, c) ==
  LET ci == ItemOf(u, p)
  IN  (cartItems \ {ci}) \cup {[ci EXCEPT !.quantity = @ + c]}

\* mutant: the check compares the stock with change_by alone
IncrementStatusChangeOnly(stock, oldq, c) ==
  IF stock < c THEN 400 ELSE 200

IncrementStatus(stock, oldq, c) ==
  IF stock < oldq + c THEN 400 ELSE 200

AdjustItem(u, p, act, c) ==
  LET valid == AdjustValid(p, act, c)
      has   == ItemsFor(u, p) # {}
      st    == IF ~valid THEN 400
               ELSE IF ~has THEN 404
               ELSE IF act = "increment"
                    THEN IncrementStatus(products[p].stock,
                                         ItemOf(u, p).quantity, c)
                    ELSE 200
  IN  /\ resp' = Response(act, u, p, c, st)
      /\ carts' = IF valid THEN get_cart(u) ELSE carts
      /\ cartItems' = IF st # 200 THEN cartItems
                      ELSE IF act = "increment" THEN IncrementRows(u, p, c)
                      ELSE DecrementRows(u, p, c)
      /\ UNCHANGED <<products, orders, orderItems, nextOrderId, txn,
                     accounts, names, adds>>

\* mutant: the whole cart is deleted, not the one row
RemoveItemWholeCart(u, p) ==
  LET st == IF p = "none" THEN 400
            ELSE IF ItemsFor(u, p) = {} THEN 404
            ELSE 200
  IN  /\ resp' = Response("remove_item", u, p, 0, st)
      /\ carts' = IF p = "none" THEN carts ELSE get_cart(u)
      /\ cartItems' = IF st = 200 THEN cartItems \ ItemsOf(u)
                      ELSE cartItems
      /\ UNCHANGED <<products, orders, orderItems, nextOrderId, txn,
                     accounts, names, adds>>

\* remove_item; p = "none" is a request without product_id
RemoveItem(u, p) ==
  LET st == IF p = "none" THEN 400
            ELSE IF ItemsFor(u, p) = {} THEN 404
            ELSE 200
  IN  /\ resp' = Response("remove_item", u, p, 0, st)
      /\ carts' = IF p = "none" THEN carts ELSE get_cart(u)
      /\ cartItems' = IF st = 200 THEN cartItems \ ItemsFor(u, p)
                      ELSE cartItems
      /\ UNCHANGED <<products, orders, orderItems, nextOrderId, txn,
                     accounts, names, adds>>

\* mutant: the Cart row goes with its items
ClearCartDropsCart(u) ==
  /\ resp' = Response("clear_cart", u, "none", 0, 204)
  /\ carts' = carts \ {u}
  /\ cartItems' = cartItems \ ItemsOf(u)
  /\ UNCHANGED <<products, orders, orderItems, nextOrderId, txn,
                     accounts, names, adds>>

ClearCart(u) ==
  /\ resp' = Response("clear_cart", u, "none", 0, 204)
  /\ carts' = get_cart(u)
  /\ cartItems' = cartItems \ ItemsOf(u)
  /\ UNCHANGED <<products, orders, orderItems, nextOrderId, txn,
                     accounts, names, adds>>

\* -------------------------------------------------------- OrderViewSet
\* mutant: the check passes as soon as one item is in stock
CheckStockAny(items, inst) ==
  \E ci \in items : ~(inst[ci.product_id].stock < ci.quantity)

\* the stock check loop of create: every item's product has enough stock
CheckStock(items, inst) ==
  \A ci \in items : ~(inst[ci.product_id].stock < ci.quantity)

StockError == [price |-> 0 - 2, stock |-> 0]

\* mutant: the last units cannot be taken
reduce_stockKeepsOne(prod, quantity) ==
  IF prod.stock <= quantity THEN StockError
  ELSE [prod EXCEPT !.stock = @ - quantity]

\* Product.reduce_stock on the product instance the request holds;
\* StockError stands for the ValueError
reduce_stock(prod, quantity) ==
  IF prod.stock < quantity THEN StockError
  ELSE [prod EXCEPT !.stock = @ - quantity]

\* mutant: the second loop subtracts from the stock the row holds now
\* instead of saving the instance the check loop read
ReducedProductsInPlace(items, inst) ==
  [p \in Products |->
     IF \E ci \in items : ci.product_id = p
     THEN [products[p] EXCEPT !.stock =
             @ - (CHOOSE ci \in items : ci.product_id = p).quantity]
     ELSE products[p]]

\* the Product rows after the second loop of create has saved every
\* ordered product's instance; other rows are left as they are
ReducedProducts(items, inst) ==
  [p \in Products |->
     IF \E ci \in items : ci.product_id = p
     THEN reduce_stock(inst[p],
                       (CHOOSE ci \in items : ci.product_id = p).quantity)
     ELSE products[p]]

RECURSIVE SumPrices(_, _)
SumPrices(S, inst) ==
  IF S = {} THEN 0
  ELSE LET x == CHOOSE y \in S : TRUE
       IN  inst[x.product_id].price + SumPrices(S \ {x}, inst)

\* mutant: the total adds the prices and forgets the quantities
OrderRowUnitTotal(id, u, items, inst) ==
  [id |-> id, user |-> u, total_amount |-> SumPrices(items, inst),
   status |-> "pending"]

OrderRow(id, u, items, inst) ==
  [id |-> id, user |-> u, total_amount |-> SumOver(items, inst),
   status |-> "pending"]

OrderItemRows(id, items, inst) ==
  {[order |-> id, product |-> ci.product_id,
    product_name |-> ProductName(ci.product_id),
    quantity |-> ci.quantity,
    price_at_order |-> inst[ci.product_id].price] : ci \in items}

\* mutant: the cart is not emptied
DeletedItemsNone(u) == cartItems

\* cart_items.delete(): a fresh DELETE of every row of the caller's cart
DeletedItems(u) == cartItems \ ItemsOf(u)

\* mutant: no empty-cart check
CheckoutStatusNoEmptyCheck(u, items, inst) ==
  IF u \notin carts THEN 404
  ELSE IF ~CheckStock(items, inst) THEN 400
  ELSE 201

CheckoutStatus(u, items, inst) ==
  IF u \notin carts THEN 404
  ELSE IF items = {} THEN 400
  ELSE IF ~CheckStock(items, inst) THEN 400
  ELSE IF \E p \in Products : ReducedProducts(items, inst)[p] = StockError
       THEN 500
  ELSE 201

Checkout(u) ==
  LET items == ItemsOf(u)
      inst  == products
      st    == CheckoutStatus(u, items, inst)
  IN  /\ resp' = Response("checkout", u, "none", 0, st)
      /\ IF st = 201
         THEN /\ nextOrderId <= MaxOrders
              /\ \A p \in Products :
                   ReducedProducts(items, inst)[p].stock <= MaxStock
              /\ orders' = orders \cup {OrderRow(nextOrderId, u, items, inst)}
              /\ orderItems' = orderItems \cup
                                 OrderItemRows(nextOrderId, items, inst)
              /\ products' = ReducedProducts(items, inst)
              /\ cartItems' = DeletedItems(u)
              /\ nextOrderId' = nextOrderId + 1
         ELSE UNCHANGED <<products, cartItems, orders, orderItems,
                          nextOrderId>>
      /\ UNCHANGED <<carts, txn, accounts, names, adds>>

\* ---------------------------------------- OrderViewSet.create, by steps
\* The same handler as a request that other requests overtake between its
\* database statements: the cart rows are read once (the queryset's result
\* cache), each product row is read when the check loop first touches
\* item.product_id and stays cached on the item, and the writes of the
\* atomic block become visible together when it commits.

\* CartItem.Meta.ordering: the loops visit the items by product name
ProductOrder == <<"p1", "p2">>

Rank(p) == CHOOSE i \in 1..Len(ProductOrder) : ProductOrder[i] = p

NextItem(todo) ==
  CHOOSE ci \in todo :
    \A other \in todo : Rank(ci.product_id) <= Rank(other.product_id)

\* get_object_or_404(Cart), cart.cart_items.all(), "if not cart_items"
CheckoutBegin(u) ==
  /\ txn[u].pc = "idle"
  /\ IF u \notin carts \/ ItemsOf(u) = {}
     THEN /\ resp' = Response("checkout", u, "none", 0,
                              CheckoutStatus(u, ItemsOf(u), products))
          /\ UNCHANGED txn
     ELSE /\ txn' = [txn EXCEPT ![u] = [pc |-> "check", items |-> ItemsOf(u),
                                        inst |-> Idle.inst]]
          /\ UNCHANGED resp
  /\ UNCHANGED <<products, carts, cartItems, orders, orderItems, nextOrderId,
                 accounts, names, adds>>

\* one round of the check loop: the item's product row is read and its
\* stock compared with the item's quantity
CheckoutFetch(u) ==
  /\ txn[u].pc = "check"
  /\ LET todo == {ci \in txn[u].items : txn[u].inst[ci.product_id] = NoProduct}
         ci   == NextItem(todo)
         p    == ci.product_id
     IN  IF ~Exists(p)
         THEN /\ resp' = Response("checkout", u, p, 0, 500)
              /\ txn' = [txn EXCEPT ![u] = Idle]
         ELSE IF ~CheckStock({ci}, products)
         THEN /\ resp' = Response("checkout", u, p, 0, 400)
              /\ txn' = [txn EXCEPT ![u] = Idle]
         ELSE /\ txn' = [txn EXCEPT
                           ![u].inst[p] = products[p],
                           ![u].pc = IF todo = {ci} THEN "write" ELSE "check"]
              /\ UNCHANGED resp
  /\ UNCHANGED <<products, carts, cartItems, orders, orderItems, nextOrderId,
                 accounts, names, adds>>

\* the rest of the atomic block and its commit: the order, its items, the
\* saved product instances and the deletion of the cart's rows; a product
\* row deleted since it was read fails the OrderItem insert and the block
\* is rolled back
CheckoutCommit(u) ==
  /\ txn[u].pc = "write"
  /\ LET items == txn[u].items
         inst  == txn[u].inst
         ok    == /\ \A ci \in items : Exists(ci.product_id)
                  /\ \A p \in Products :
                       ReducedProducts(items, inst)[p] # StockError
     IN  /\ resp' = Response("checkout", u, "none", 0,
                             IF ok THEN 201 ELSE 500)
         /\ IF ok
            THEN /\ nextOrderId <= MaxInFlight
                 /\ \A p \in Products :
                      ReducedProducts(items, inst)[p].stock <= MaxStock
                 /\ orders' = orders \cup
                                {OrderRow(nextOrderId, u, items, inst)}
                 /\ orderItems' = orderItems \cup
                                    OrderItemRows(nextOrderId, items, inst)
                 /\ products' = ReducedProducts(items, inst)
                 /\ cartItems' = DeletedItems(u)
                 /\ nextOrderId' = nextOrderId + 1
            ELSE UNCHANGED <<products, cartItems, orders, orderItems,
                             nextOrderId>>
  /\ txn' = [txn EXCEPT ![u] = Idle]
  /\ UNCHANGED <<carts, accounts, names, adds>>

\* ------------------------------------------------------ ProductViewSet
\* ProductSerializer.is_valid: the model field validators
ProductValid(price, stock) == price >= 1 /\ stock >= 0

AdminCreate(p, price, stock) ==
  /\ ~Exists(p)
  /\ resp' = Response("product_create", Staff, p, 0,
                      IF ProductValid(price, stock) THEN 201 ELSE 400)
  /\ products' = IF ProductValid(price, stock)
                 THEN [products EXCEPT ![p] = [price |-> price,
                                               stock |-> stock]]
                 ELSE products
  /\ names' = IF ProductValid(price, stock)
              THEN [names EXCEPT ![p] = p] ELSE names
  /\ UNCHANGED <<carts, cartItems, orders, orderItems, nextOrderId, txn,
                     accounts, adds>>

AdminUpdate(p, price, stock) ==
  LET st == IF ~Exists(p) THEN 404
            ELSE IF ProductValid(price, stock) THEN 200 ELSE 400
  IN  /\ resp' = Response("product_update", Staff, p, 0, st)
      /\ products' = IF st = 200
                     THEN [products EXCEPT ![p] = [price |-> price,
                                                   stock |-> stock]]
                     ELSE products
      /\ UNCHANGED <<carts, cartItems, orders, orderItems, nextOrderId, txn,
                     accounts, names, adds>>

\* the other name a request can give the product with id p
NewName(p) == IF p = "p1" THEN "q1" ELSE "q2"

\* partial_update of a product with a request {"name": name}: the
\* UniqueValidator of Product.name, then the row is saved
AdminRename(p, name) ==
  LET taken == \E other \in Products \ {p} :
                 Exists(other) /\ ProductName(other) = name
      st    == IF ~Exists(p) THEN 404 ELSE IF taken THEN 400 ELSE 200
  IN  /\ resp' = Response("product_rename", Staff, p, 0, st)
      /\ names' = IF st = 200 THEN [names EXCEPT ![p] = name] ELSE names
      /\ UNCHANGED <<products, carts, cartItems, orders, orderItems,
                     nextOrderId, txn, accounts, adds>>

\* mutant: OrderItem.product cascades like CartItem.product_id
AdminDestroyCascade(p) ==
  /\ resp' = Response("product_destroy", Staff, p, 0,
                      IF Exists(p) THEN 204 ELSE 404)
  /\ products' = [products EXCEPT ![p] = NoProduct]
  /\ cartItems' = {ci \in cartItems : ci.product_id # p}
  /\ orderItems' = {oi \in orderItems : oi.product # p}
  /\ UNCHANGED <<carts, orders, nextOrderId, txn, accounts, names, adds>>

\* destroy: CartItem.product_id cascades, OrderItem.product is SET_NULL
AdminDestroy(p) ==
  /\ resp' = Response("product_destroy", Staff, p, 0,
                      IF Exists(p) THEN 204 ELSE 404)
  /\ products' = [products EXCEPT ![p] = NoProduct]
  /\ cartItems' = {ci \in cartItems : ci.product_id # p}
  /\ orderItems' = {IF oi.product = p THEN [oi EXCEPT !.product = "none"]
                    ELSE oi : oi \in orderItems}
  /\ UNCHANGED <<carts, orders, nextOrderId, txn,
                     accounts, names, adds>>

\* ------------------------------------------------------ authentication
\* the users a valid token can name: the ones with a User row
Registered == {a.username : a \in accounts}

\* mutant: the email is not looked up
RegistrationStatusNoEmailCheck(un, em, pw, cpw) ==
  IF pw # cpw THEN 400
  ELSE IF \E a \in accounts : a.username = un THEN 400
  ELSE 201

\* RegistrationSerializer.validate: the passwords, then the email, then the
\* username
RegistrationStatus(un, em, pw, cpw) ==
  IF pw # cpw THEN 400
  ELSE IF \E a \in accounts : a.email = em THEN 400
  ELSE IF \E a \in accounts : a.username = un THEN 400
  ELSE 201

\* what the model keeps of a response that carries a token pair: the user
\* the tokens are issued to
TokenResponse(op, st, user) ==
  [op |-> op, status |-> st, access |-> user, refresh |-> user]

\* mutant: the User row is stored and no Cart row
RegisterNoCart(un, em, pw, cpw) ==
  LET st == RegistrationStatus(un, em, pw, cpw)
  IN  /\ resp' = IF st = 201 THEN TokenResponse("register", 201, un)
                 ELSE Response("register", un, "none", 0, st)
      /\ accounts' = IF st = 201
                     THEN accounts \cup {[username |-> un, email |-> em,
                                          password |-> pw]}
                     ELSE accounts
      /\ UNCHANGED <<products, carts, cartItems, orders, orderItems,
                     nextOrderId, txn, names, adds>>

\* UserRegistrationViewSet.create: the serializer, the User row, the Cart
\* row, the token pair
Register(un, em, pw, cpw) ==
  LET st == RegistrationStatus(un, em, pw, cpw)
  IN  /\ resp' = IF st = 201 THEN TokenResponse("register", 201, un)
                 ELSE Response("register", un, "none", 0, st)
      /\ accounts' = IF st = 201
                     THEN accounts \cup {[username |-> un, email |-> em,
                                          password |-> pw]}
                     ELSE accounts
      /\ carts' = IF st = 201 THEN carts \cup {un} ELSE carts
      /\ UNCHANGED <<products, cartItems, orders, orderItems, nextOrderId,
                     txn, names, adds>>

\* mutant: the failure of Cart.objects.create undoes the User row
RegisterCartFailureRolledBack(un, em, pw, cpw) ==
  /\ RegistrationStatus(un, em, pw, cpw) = 201
  /\ resp' = Response("register", un, "none", 0, 500)
  /\ UNCHANGED <<products, carts, cartItems, orders, orderItems, nextOrderId,
                 txn, accounts, names, adds>>

\* UserRegistrationViewSet.create when Cart.objects.create raises (the
\* database refuses the INSERT): serializer.save() has stored the User row
\* outside any transaction, the exception ends the request with a 500
RegisterCartFailure(un, em, pw, cpw) ==
  /\ RegistrationStatus(un, em, pw, cpw) = 201
  /\ resp' = Response("register", un, "none", 0, 500)
  /\ accounts' = accounts \cup {[username |-> un, email |-> em,
                                  password |-> pw]}
  /\ UNCHANGED <<products, carts, cartItems, orders, orderItems, nextOrderId,
                 txn, names, adds>>

\* the rows filter(username=...) or filter(email=...) finds
LoginMatches(un, em) ==
  IF un # NoInput THEN {a \in accounts : a.username = un}
  ELSE {a \in accounts : a.email = em}

\* mutant: a request with both identifiers is looked up by its username
LoginStatusBothAllowed(un, em, pw) ==
  IF un = NoInput /\ em = NoInput THEN 400
  ELSE IF \A a \in LoginMatches(un, em) : a.password # pw THEN 400
  ELSE 200

\* CustomTokenObtainPairSerializer.validate
LoginStatus(un, em, pw) ==
  IF un = NoInput /\ em = NoInput THEN 400
  ELSE IF un # NoInput /\ em # NoInput THEN 400
  ELSE IF \A a \in LoginMatches(un, em) : a.password # pw THEN 400
  ELSE 200

\* UserLoginViewSet.create
Login(un, em, pw) ==
  LET st == LoginStatus(un, em, pw)
  IN  /\ resp' = IF st = 200
                 THEN TokenResponse("login", 200,
                        (CHOOSE a \in LoginMatches(un, em) :
                           a.password = pw).username)
                 ELSE Response("login", un, "none", 0, st)
      /\ UNCHANGED <<products, carts, cartItems, orders, orderItems,
                     nextOrderId, txn, accounts, names, adds>>

\* ------------------------------------------------- OrderViewSet, rest
\* Order.STATUS_CHOICES
Statuses == {"pending", "processing", "shipped", "delivered", "cancelled"}

\* OrderSerializer.Meta.read_only_fields
OrderReadOnly == {"user", "total_amount", "status"}

\* the ids order requests name
OrderIds == 1..MaxOrders

\* a request without credentials
Anonymous == "anonymous"
Callers == Users \cup {Staff, Anonymous}

\* permissions.IsAuthenticated and permissions.IsAdminUser
IsAuthenticated(c) == c = Staff \/ c \in Registered

IsAdminUser(c) == c = Staff

\* mutant: every caller is shown every order
get_querysetAll(c) == orders

\* OrderViewSet.get_queryset
get_queryset(c) ==
  IF IsAdminUser(c) THEN orders ELSE {o \in orders : o.user = c}

\* what the model keeps of a response that carries orders: their ids
OrdersResponse(op, st, os) ==
  [op |-> op, status |-> st, orders |-> {o.id : o \in os}]

OrderList(c) ==
  /\ resp' = OrdersResponse("order_list", 200, get_queryset(c))
  /\ UNCHANGED <<products, carts, cartItems, orders, orderItems, nextOrderId,
                 txn, accounts, names, adds>>

OrderRetrieve(c, id) ==
  LET found == {o \in get_queryset(c) : o.id = id}
  IN  /\ resp' = IF found = {} THEN Response("order_retrieve", c, id, 0, 404)
                 ELSE OrdersResponse("order_retrieve", 200, found)
      /\ UNCHANGED <<products, carts, cartItems, orders, orderItems,
                     nextOrderId, txn, accounts, names, adds>>

\* the order after OrderSerializer.update: the serializer drops the fields
\* it declares read-only from the request
SavedOrder(o, status) ==
  IF "status" \in OrderReadOnly THEN o ELSE [o EXCEPT !.status = status]

\* update and partial_update of an order with a request {"status": status}
OrderUpdate(c, id, status) ==
  LET found == {o \in get_queryset(c) : o.id = id}
      st    == IF found = {} THEN 404
               ELSE IF "status" \notin OrderReadOnly /\ status \notin Statuses
                    THEN 400
               ELSE 200
  IN  /\ resp' = Response("order_update", c, id, 0, st)
      /\ orders' = IF st = 200
                   THEN (orders \ found) \cup
                          {SavedOrder(o, status) : o \in found}
                   ELSE orders
      /\ UNCHANGED <<products, carts, cartItems, orderItems, nextOrderId,
                     txn, accounts, names, adds>>

\* destroy of an order: OrderItem.order cascades
OrderDestroy(c, id) ==
  LET found == {o \in get_queryset(c) : o.id = id}
  IN  /\ resp' = Response("order_destroy", c, id, 0,
                          IF found = {} THEN 404 ELSE 204)
      /\ orders' = orders \ found
      /\ orderItems' = {oi \in orderItems : \A o \in found : oi.order # o.id}
      /\ UNCHANGED <<products, carts, cartItems, nextOrderId, txn, accounts, names, adds>>

\* ------------------------------------------------- ProductViewSet, rest
ProductList(c) ==
  /\ resp' = Response("product_list", c, "none", 0, 200)
  /\ UNCHANGED <<products, carts, cartItems, orders, orderItems, nextOrderId,
                 txn, accounts, names, adds>>

ProductRetrieve(c, p) ==
  /\ resp' = Response("product_retrieve", c, p, 0,
                      IF Exists(p) THEN 200 ELSE 404)
  /\ UNCHANGED <<products, carts, cartItems, orders, orderItems, nextOrderId,
                 txn, accounts, names, adds>>

\* ---------------------------------------------------------- permissions
\* the actions get_permissions reserves to staff
ProductWrites == {"create", "update", "partial_update", "destroy"}
OrderWrites == {"update", "partial_update", "destroy"}

\* mutant: every authenticated caller may write products
ProductPermissionAuthenticated(c, action) == IsAuthenticated(c)

\* ProductViewSet.get_permissions
ProductPermission(c, action) ==
  IF action \in ProductWrites THEN IsAdminUser(c) ELSE IsAuthenticated(c)

\* CartViewSet.permission_classes
CartPermission(c, action) == IsAuthenticated(c)

\* OrderViewSet.get_permissions
OrderPermission(c, action) ==
  IF action \in OrderWrites THEN IsAdminUser(c) ELSE IsAuthenticated(c)

\* the status of a request that fails its view's permissions: 401 without
\* credentials, 403 with them
DeniedStatus(c) == IF IsAuthenticated(c) THEN 403 ELSE 401

\* a request that fails its view's permissions: the handler does not run
Denied(c, op) ==
  /\ resp' = Response(op, c, "none", 0, DeniedStatus(c))
  /\ UNCHANGED <<products, carts, cartItems, orders, orderItems, nextOrderId,
                 txn, accounts, names, adds>>

\* a request: the view's permissions, then the handler
Gate(granted, c, op, Handler) ==
  IF granted THEN Handler ELSE Denied(c, op)

RetrieveRequest(c) ==
  Gate(CartPermission(c, "retrieve"), c, "retrieve", Retrieve(c))

AddItemRequest(c, p, q) ==
  Gate(CartPermission(c, "add_item"), c, "add_item", AddItem(c, p, q))

AdjustItemRequest(c, p, act, n) ==
  Gate(CartPermission(c, "adjust_item_quantity"), c, act,
       AdjustItem(c, p, act, n))

RemoveItemRequest(c, p) ==
  Gate(CartPermission(c, "remove_item"), c, "remove_item", RemoveItem(c, p))

ClearCartRequest(c) ==
  Gate(CartPermission(c, "clear_cart"), c, "clear_cart", ClearCart(c))

CheckoutRequest(c) ==
  Gate(OrderPermission(c, "create"), c, "checkout", Checkout(c))

OrderListRequest(c) ==
  Gate(OrderPermission(c, "list"), c, "order_list", OrderList(c))

OrderRetrieveRequest(c, id) ==
  Gate(OrderPermission(c, "retrieve"), c, "order_retrieve",
       OrderRetrieve(c, id))

OrderUpdateRequest(c, action, id, status) ==
  Gate(OrderPermission(c, action), c, "order_update",
       OrderUpdate(c, id, status))

OrderDestroyRequest(c, id) ==
  Gate(OrderPermission(c, "destroy"), c, "order_destroy", OrderDestroy(c, id))

ProductListRequest(c) ==
  Gate(ProductPermission(c, "list"), c, "product_list", ProductList(c))

ProductRetrieveRequest(c, p) ==
  Gate(ProductPermission(c, "retrieve"), c, "product_retrieve",
       ProductRetrieve(c, p))

ProductCreateRequest(c, p, price, stock) ==
  Gate(ProductPermission(c, "create"), c, "product_create",
       AdminCreate(p, price, stock))

ProductUpdateRequest(c, action, p, price, stock) ==
  Gate(ProductPermission(c, action), c, "product_update",
       AdminUpdate(p, price, stock))

ProductDestroyRequest(c, p) ==
  Gate(ProductPermission(c, "destroy"), c, "product_destroy", AdminDestroy(p))

\* ------------------------------------------------------ specifications
AddOps(US, PS) ==
  \E u \in US, p \in PS, q \in Qtys : AddItem(u, p, q)

CartOps(US, PS) ==
  \/ \E u \in US : Retrieve(u)
  \/ AddOps(US, PS)
  \/ \E u \in US, p \in PS, a \in AdjustInputs :
        AdjustItem(u, p, a.action, a.change_by)
  \/ \E u \in US, p \in PS \cup {"none"} : RemoveItem(u, p)
  \/ \E u \in US : ClearCart(u)

OrderOps(US) ==
  \E u \in US : Checkout(u)

StockOps(PS) ==
  \E p \in PS, d \in ProductInputs : AdminUpdate(p, d.price, d.stock)

CatalogOps(PS) ==
  \/ \E p \in PS, d \in ProductInputs : AdminCreate(p, d.price, d.stock)
  \/ \E p \in PS : AdminDestroy(p)

\* one customer filling a cart from a catalog of two products and checking
\* out, while staff re-price and restock the products
Init == InitOn({}, {"u1"}, Products, {})
Next == AddOps({"u1"}, Products) \/ OrderOps({"u1"}) \/ StockOps(Products)
Spec == Init /\ [][Next]_vars

\* every customer and the whole catalog: the cart and product handlers
InitCart == InitOn({}, Users, {}, Products)
NextCart ==
  CartOps(Users, Products) \/ StockOps(Products) \/ CatalogOps(Products)
SpecCart == InitCart /\ [][NextCart]_vars

\* every customer and one product: every handler
InitTwo == InitOn(Users, {}, {}, {"p1"})
NextTwo ==
  \/ CartOps(Users, {"p1"})
  \/ OrderOps(Users)
  \/ StockOps({"p1"})
  \/ CatalogOps({"p1"})
SpecTwo == InitTwo /\ [][NextTwo]_vars

\* add_item requests for quantities of 1 and more
BuyOps(US, PS) ==
  \E u \in US, p \in PS, q \in 1..MaxQty : AddItem(u, p, q)

\* staff requests that keep the products at the lowest price
CheapOps(PS) ==
  \/ \E p \in PS, d \in ProductInputs :
        d.price <= 1 /\ AdminUpdate(p, d.price, d.stock)
  \/ \E p \in PS, d \in ProductInputs :
        d.price <= 1 /\ AdminCreate(p, d.price, d.stock)
  \/ \E p \in PS : AdminDestroy(p)

StepOps(US) ==
  \/ \E u \in US : CheckoutBegin(u)
  \/ \E u \in US : CheckoutFetch(u)
  \/ \E u \in US : CheckoutCommit(u)

\* two customers whose checkouts of one product overlap each other, cart
\* requests and staff requests
InitConc ==
  /\ InitOn({}, Users, {}, {"p1"})
  /\ products["p1"].price <= 1
NextConc ==
  \/ BuyOps(Users, {"p1"})
  \/ StepOps(Users)
  \/ CheapOps({"p1"})
SpecConc == InitConc /\ [][NextConc]_vars

\* staff requests that rename the products
RenameOps(PS) ==
  \E p \in PS : \E name \in {p, NewName(p)} : AdminRename(p, name)

\* staff requests that set a price and restock the product fully
RepriceOps(PS) ==
  \/ \E p \in PS, d \in ProductInputs :
        d.stock = MaxStock /\ AdminUpdate(p, d.price, d.stock)
  \/ \E p \in PS, d \in ProductInputs :
        d.stock = MaxStock /\ AdminCreate(p, d.price, d.stock)
  \/ \E p \in PS : AdminDestroy(p)

\* one customer orders from a fully stocked catalog of two products that
\* staff re-price, rename, delete and create again
InitCatalog ==
  /\ InitOn({}, {"u1"}, Products, {})
  /\ \A p \in Products : products[p].stock = MaxStock
NextCatalog ==
  \/ BuyOps({"u1"}, Products)
  \/ OrderOps({"u1"})
  \/ RepriceOps(Products)
  \/ RenameOps(Products)
SpecCatalog == InitCatalog /\ [][NextCatalog]_vars

\* two customers fill their carts from one fully stocked product and check
\* out, their checkouts overlapping; staff send no request
InitRace ==
  /\ InitOn({}, Users, {"p1"}, {})
  /\ products["p1"].stock = MaxStock
NextRace ==
  \/ BuyOps(Users, {"p1"})
  \/ StepOps(Users)
SpecRace == InitRace /\ [][NextRace]_vars

\* add_item requests served step by step
AddSteps(US, PS) ==
  \/ \E w \in Workers, u \in US, p \in PS, q \in 1..MaxQty :
        AddItemBegin(w, u, p, q)
  \/ \E w \in Workers : AddItemSave(w)

\* two workers serve the add_item requests of two customers for one product
\* (and for a product id that has no row), two requests at a time
InitAdd ==
  /\ products \in [Products -> {NoProduct} \cup
                    [price : {1}, stock : 0..MaxAddStock]]
  /\ products["p1"] # NoProduct
  /\ products["p2"] = NoProduct
  /\ carts = Users
  /\ cartItems = {}
  /\ orders = {}
  /\ orderItems = {}
  /\ nextOrderId = 1
  /\ resp = [op |-> "none", status |-> 0]
  /\ txn = [u \in Users |-> Idle]
  /\ accounts = {SeedUser(u) : u \in Users}
  /\ names = [p \in Products |-> p]
  /\ adds = [w \in Workers |-> NoAdd]
NextAdd == AddSteps(Users, Products)
SpecAdd == InitAdd /\ [][NextAdd]_vars

\* the registration and login requests anyone can send
AuthOps ==
  \/ \E un \in Users, em \in Emails, pw \in Passwords, cpw \in Passwords :
        Register(un, em, pw, cpw)
  \/ \E un \in Users \cup {NoInput}, em \in Emails \cup {NoInput},
        pw \in Passwords : Login(un, em, pw)

\* nobody has registered yet: customers register, log in, fill their carts
\* from a catalog of one product and check out
InitAuth ==
  /\ products \in [Products -> {NoProduct} \cup
                    [price : 1..MaxPrice, stock : 0..MaxStock]]
  /\ products["p2"] = NoProduct
  /\ carts = {}
  /\ cartItems = {}
  /\ orders = {}
  /\ orderItems = {}
  /\ nextOrderId = 1
  /\ resp = [op |-> "none", status |-> 0]
  /\ txn = [u \in Users |-> Idle]
  /\ accounts = {}
  /\ names = [p \in Products |-> p]
  /\ adds = [w \in Workers |-> NoAdd]
NextAuth ==
  \/ AuthOps
  \/ CartOps(Registered, {"p1"})
  \/ OrderOps(Registered)
SpecAuth == InitAuth /\ [][NextAuth]_vars

\* registration, login, cart and checkout requests as in SpecAuth, on a
\* database that can refuse the INSERT of a Cart row
NextFaulty ==
  \/ NextAuth
  \/ \E un \in Users, em \in Emails, pw \in Passwords, cpw \in Passwords :
        RegisterCartFailure(un, em, pw, cpw)
SpecFaulty == InitAuth /\ [][NextFaulty]_vars

\* the carts two customers can have filled from the catalog: at most one
\* row of one or more units for each product that has a row
FilledCarts ==
  {rows \in SUBSET [cart : Users, product_id : Products,
                    quantity : 1..MaxQty] :
     /\ \A ci \in rows : products[ci.product_id] # NoProduct
     /\ \A a \in rows, c \in rows :
          (a.cart = c.cart /\ a.product_id = c.product_id) => a = c}

\* two customers with filled carts send checkout requests and nothing else;
\* a checkout of a customer can be served whole while an earlier one of the
\* same customer is still in flight
InitTwice ==
  /\ products \in [Products -> {NoProduct} \cup
                    [price : {1}, stock : 0..MaxStock]]
  /\ products["p1"] # NoProduct
  /\ carts = Users
  /\ cartItems \in FilledCarts
  /\ orders = {}
  /\ orderItems = {}
  /\ nextOrderId = 1
  /\ resp = [op |-> "none", status |-> 0]
  /\ txn = [u \in Users |-> Idle]
  /\ accounts = {SeedUser(u) : u \in Users}
  /\ names = [p \in Products |-> p]
  /\ adds = [w \in Workers |-> NoAdd]
NextTwice ==
  \/ StepOps(Users)
  \/ OrderOps(Users)
SpecTwice == InitTwice /\ [][NextTwice]_vars

\* the requests of the callers CS to the cart and order endpoints
CustomerRequests(CS, PS) ==
  \/ \E c \in CS : RetrieveRequest(c)
  \/ \E c \in CS, p \in PS, q \in Qtys : AddItemRequest(c, p, q)
  \/ \E c \in CS, p \in PS, a \in AdjustInputs :
        AdjustItemRequest(c, p, a.action, a.change_by)
  \/ \E c \in CS, p \in PS \cup {"none"} : RemoveItemRequest(c, p)
  \/ \E c \in CS : ClearCartRequest(c)
  \/ \E c \in CS : CheckoutRequest(c)

\* the requests of the callers CS to read and write orders
OrderRequests(CS) ==
  \/ \E c \in CS : OrderListRequest(c)
  \/ \E c \in CS, id \in OrderIds : OrderRetrieveRequest(c, id)
  \/ \E c \in CS, a \in {"update", "partial_update"}, id \in OrderIds,
        st \in Statuses : OrderUpdateRequest(c, a, id, st)
  \/ \E c \in CS, id \in OrderIds : OrderDestroyRequest(c, id)

\* the requests of the callers CS to the product endpoints
ProductRequests(CS, PS) ==
  \/ \E c \in CS : ProductListRequest(c)
  \/ \E c \in CS, p \in PS : ProductRetrieveRequest(c, p)
  \/ \E c \in CS, p \in PS, d \in ProductInputs :
        ProductCreateRequest(c, p, d.price, d.stock)
  \/ \E c \in CS, a \in {"update", "partial_update"}, p \in PS,
        d \in ProductInputs : ProductUpdateRequest(c, a, p, d.price, d.stock)
  \/ \E c \in CS, p \in PS : ProductDestroyRequest(c, p)

\* a customer, staff and callers without credentials send every request of
\* the store; the catalog has one product
InitApi == InitOn({}, Users, {}, {"p1"})
NextApi ==
  \/ CustomerRequests({"u1", Anonymous}, {"p1"})
  \/ OrderRequests({"u1", Staff, Anonymous})
  \/ ProductRequests({"u1", Staff, Anonymous}, {"p1"})
SpecApi == InitApi /\ [][NextApi]_vars

\* two customers fill their carts and check out; they, staff and callers
\* without credentials read and write the orders
InitOrders == InitOn({}, Users, {}, {"p1"})
NextOrders ==
  \/ CustomerRequests(Users, {"p1"})
  \/ OrderRequests(Callers)
SpecOrders == InitOrders /\ [][NextOrders]_vars

\* ------------------------------------------------------------ checkout
\* the cart rows of u after the step
ItemsAfter(u) == {ci \in cartItems' : ci.cart = u}

NewOrders == orders' \ orders
NewOrderItems == orderItems' \ orderItems

\* the quantity of p in u's cart, 0 when the cart has no row for p
InCart(u, p) == IF ItemsFor(u, p) = {} THEN 0 ELSE ItemOf(u, p).quantity

RECURSIVE TotalOver(_, _)
TotalOver(u, PS) ==
  IF PS = {} THEN 0
  ELSE LET p == CHOOSE x \in PS : TRUE
       IN  InCart(u, p) * products[p].price + TotalOver(u, PS \ {p})

\* outcome 1: an Order with an OrderItem for every cart item is stored,
\* every ordered product's stock is decremented, the cart is empty
Committed(u) ==
  /\ \E o \in NewOrders :
       /\ o.user = u
       /\ \A ci \in ItemsOf(u) :
            \E oi \in NewOrderItems :
              /\ oi.order = o.id
              /\ oi.product = ci.product_id
              /\ oi.quantity = ci.quantity
  /\ \A ci \in ItemsOf(u) :
       products'[ci.product_id].stock =
         products[ci.product_id].stock - ci.quantity
  /\ ItemsAfter(u) = {}

\* outcome 2: orders, order items, stocks and the cart are as before
RolledBack(u) ==
  /\ orders' = orders
  /\ orderItems' = orderItems
  /\ \A p \in Products : products'[p].stock = products[p].stock
  /\ ItemsAfter(u) = ItemsOf(u)

\* C1: every checkout request ends either with the order, its items, the
\* stock decrements and the emptied cart all stored, or with orders, order
\* items, stocks and the caller's cart exactly as before; never in between
C1_CheckoutAllOrNothing ==
  [][\A u \in Users :
        (resp'.op = "checkout" /\ Checkout(u))
        => (Committed(u) \/ RolledBack(u))]_vars

\* a checkout of a cart of two items went through
C1_Witness ==
  /\ resp = [op |-> "checkout", status |-> 201]
  /\ Cardinality(orderItems) = 2
  /\ cartItems = {}
  /\ \E p \in Products : products[p].stock = 0

\* C2: a checkout of a non-empty cart whose every quantity is within stock
\* creates exactly one pending Order whose total is the sum of quantity *
\* price, exactly one OrderItem per cart item with the product, its name,
\* the quantity and the current price, decrements each ordered product's
\* stock by the quantity, leaves other stocks alone and empties the cart
C2_CheckoutPlacesOrder ==
  [][\A u \in Users :
        ( /\ resp'.op = "checkout"
          /\ Checkout(u)
          /\ u \in carts
          /\ ItemsOf(u) # {}
          /\ \A ci \in ItemsOf(u) :
               ci.quantity <= products[ci.product_id].stock )
        =>
        ( /\ Cardinality(NewOrders) = 1
          /\ orders \subseteq orders'
          /\ orderItems \subseteq orderItems'
          /\ \A o \in NewOrders :
               /\ o.user = u
               /\ o.status = "pending"
               /\ o.total_amount = TotalOver(u, Products)
               /\ NewOrderItems =
                    {[order |-> o.id, product |-> ci.product_id,
                      product_name |-> ProductName(ci.product_id),
                      quantity |-> ci.quantity,
                      price_at_order |-> products[ci.product_id].price] :
                       ci \in ItemsOf(u)}
          /\ Cardinality(NewOrderItems) = Cardinality(ItemsOf(u))
          /\ \A p \in Products :
               /\ products'[p].stock = products[p].stock - InCart(u, p)
               /\ products'[p].price = products[p].price
          /\ ItemsAfter(u) = {} )]_vars

\* the cart held 2 of a product priced 1 and 1 of a product priced 2
C2_Witness ==
  /\ resp = [op |-> "checkout", status |-> 201]
  /\ \E o \in orders : o.total_amount = 4
  /\ \E a, b \in orderItems :
       /\ a.quantity = 2 /\ a.price_at_order = 1
       /\ b.quantity = 1 /\ b.price_at_order = 2
  /\ cartItems = {}

\* C3: a checkout by a user whose cart holds no items answers 400, creates
\* no Order and no OrderItem and changes no stock
C3_EmptyCartCheckout ==
  [][\A u \in Users :
        ( /\ resp'.op = "checkout"
          /\ u \in carts
          /\ ItemsOf(u) = {}
          /\ Checkout(u) )
        => ( /\ resp'.status = 400
             /\ orders' = orders
             /\ orderItems' = orderItems
             /\ products' = products )]_vars

\* an empty cart was checked out while the catalog had stock to sell
C3_Witness ==
  /\ resp = [op |-> "checkout", status |-> 400]
  /\ cartItems = {}
  /\ orders = {}
  /\ \E p \in Products : products[p].stock > 0

\* C4: a checkout of a cart with an item whose quantity exceeds its
\* product's current stock answers 400, creates no Order or OrderItem,
\* changes no stock and keeps the cart's items and quantities
C4_InsufficientStockCheckout ==
  [][\A u \in Users :
        ( /\ resp'.op = "checkout"
          /\ Checkout(u)
          /\ \E ci \in ItemsOf(u) :
               ci.quantity > products[ci.product_id].stock )
        => ( /\ resp'.status = 400
             /\ orders' = orders
             /\ orderItems' = orderItems
             /\ products' = products
             /\ ItemsAfter(u) = ItemsOf(u) )]_vars

\* the refused cart held one item within stock and one beyond it
C4_Witness ==
  /\ resp = [op |-> "checkout", status |-> 400]
  /\ \E a, b \in cartItems :
       /\ a.cart = b.cart
       /\ a.quantity >= 1
       /\ a.quantity <= products[a.product_id].stock
       /\ b.quantity > products[b.product_id].stock

\* C5: the stock of every product is >= 0 in every reachable state, also
\* when checkouts overlap each other, cart requests and staff requests
C5_StockNeverNegative ==
  \A p \in Products : products[p].stock >= 0

\* a checkout has just committed while another one, past its stock check,
\* still holds a product instance with more stock than the row has now
C5_Witness ==
  /\ resp = [op |-> "checkout", status |-> 201]
  /\ \E u \in Users :
       /\ txn[u].pc = "write"
       /\ \E ci \in txn[u].items :
            /\ txn[u].inst[ci.product_id].stock >= ci.quantity
            /\ products[ci.product_id] # NoProduct
            /\ products[ci.product_id].stock < ci.quantity

\* ---------------------------------------------------------------- cart
\* the rows of u's cart for p after the step
ItemsForAfter(u, p) ==
  {ci \in cartItems' : ci.cart = u /\ ci.product_id = p}

\* every row but u's row for p
OtherItems(rows, u, p) ==
  {ci \in rows : ~(ci.cart = u /\ ci.product_id = p)}

\* C6: every stored CartItem has quantity >= 1, whatever quantity or
\* change_by the cart requests carry
C6_QuantityAtLeastOne ==
  \A ci \in cartItems : ci.quantity >= 1

C8_AddExistingItem ==
  [][\A u \in Users, p \in Products, q2 \in Qtys :
        ( /\ resp'.op = "add_item"
          /\ ItemsFor(u, p) # {}
          /\ AddItem(u, p, q2) )
        => LET q1 == ItemOf(u, p).quantity
           IN  /\ (resp'.status = 200) <=> (q1 + q2 <= products[p].stock)
               /\ resp'.status = 200 =>
                    ItemsForAfter(u, p) =
                      {[cart |-> u, product_id |-> p, quantity |-> q1 + q2]}
               /\ resp'.status # 200 =>
                    (resp'.status = 400 /\ ItemsForAfter(u, p) = ItemsFor(u, p))
     ]_vars

\* a step of one of the five cart handlers
CartStep ==
  \/ \E u \in Users : Retrieve(u) \/ ClearCart(u)
  \/ \E u \in Users, p \in Products, q \in Qtys : AddItem(u, p, q)
  \/ \E u \in Users, p \in Products, a \in AdjustInputs :
        AdjustItem(u, p, a.action, a.change_by)
  \/ \E u \in Users, p \in Products \cup {"none"} : RemoveItem(u, p)

\* C9: no cart request, successful or not, changes a product; a product
\* row changes only in a checkout or a staff product request
C9_CartKeepsStock ==
  [][products' # products =>
        ( /\ ~CartStep
          /\ resp'.op \in {"checkout", "product_create", "product_update",
                           "product_destroy"} )]_vars

\* a cart holds the whole stock of a product and the stock is still there
C9_Witness ==
  /\ resp = [op |-> "add_item", status |-> 200]
  /\ \E ci \in cartItems :
       /\ ci.quantity = MaxStock
       /\ products[ci.product_id].stock = MaxStock

\* C10: a decrement by c >= 1 of a cart row of quantity q answers 200; the
\* row is deleted when q - c < 1 and holds q - c otherwise, so no quantity
\* below 1 is stored; every other cart row is unchanged
C10_Decrement ==
  [][\A u \in Users, p \in Products, c \in 1..MaxQty :
        ( /\ resp'.op = "decrement"
          /\ ItemsFor(u, p) # {}
          /\ AdjustItem(u, p, "decrement", c) )
        => LET q == ItemOf(u, p).quantity
           IN  /\ resp'.status = 200
               /\ ItemsForAfter(u, p) =
                    IF q - c < 1 THEN {}
                    ELSE {[cart |-> u, product_id |-> p, quantity |-> q - c]}
               /\ \A ci \in ItemsForAfter(u, p) : ci.quantity >= 1
               /\ OtherItems(cartItems', u, p) = OtherItems(cartItems, u, p)
     ]_vars

\* a decrement took the last row out of the carts
C10_Witness ==
  /\ resp = [op |-> "decrement", status |-> 200]
  /\ cartItems = {}

\* C11: an increment by c >= 1 of a cart row of quantity q whose product has
\* stock s answers 200 iff q + c <= s; on 200 the row holds q + c; otherwise
\* the answer is 400 and the row still holds q
C11_Increment ==
  [][\A u \in Users, p \in Products, c \in 1..MaxQty :
        ( /\ resp'.op = "increment"
          /\ ItemsFor(u, p) # {}
          /\ AdjustItem(u, p, "increment", c) )
        => LET q == ItemOf(u, p).quantity
           IN  /\ (resp'.status = 200) <=> (q + c <= products[p].stock)
               /\ resp'.status = 200 =>
                    ItemsForAfter(u, p) =
                      {[cart |-> u, product_id |-> p, quantity |-> q + c]}
               /\ resp'.status # 200 =>
                    (resp'.status = 400 /\ ItemsForAfter(u, p) = ItemsFor(u, p))
     ]_vars

\* an increment brought a row up to the whole stock of its product
C11_Witness ==
  /\ resp = [op |-> "increment", status |-> 200]
  /\ \E ci \in cartItems :
       /\ ci.quantity = MaxStock
       /\ products[ci.product_id].stock = MaxStock

\* C12: an adjust request (valid action, change_by >= 1) for a product_id
\* the caller's cart has no row for answers 404 and changes nothing, when
\* the product exists and when the product_id is the id of no product
C12_AdjustNotFound ==
  [][\A u \in Users, p \in Products, c \in 1..MaxQty :
        \A act \in {"increment", "decrement"} :
          ( /\ resp'.op = act
            /\ u \in carts
            /\ ItemsFor(u, p) = {}
            /\ AdjustItem(u, p, act, c) )
          => (resp'.status = 404 /\ db' = db)]_vars

\* C13: remove_item for a product the caller's cart has a row for deletes
\* that row, whatever its quantity, and leaves every other cart row as it
\* is; for a product the cart has no row for it answers 404 and changes no
\* cart row, product or order (nor the Cart table of a caller with a cart)
C13_RemoveItem ==
  [][\A u \in Users, p \in Products :
        (resp'.op = "remove_item" /\ RemoveItem(u, p))
        => IF ItemsFor(u, p) # {}
           THEN /\ resp'.status = 200
                /\ ItemsForAfter(u, p) = {}
                /\ OtherItems(cartItems', u, p) = OtherItems(cartItems, u, p)
           ELSE /\ resp'.status = 404
                /\ cartItems' = cartItems
                /\ products' = products
                /\ orders' = orders
                /\ orderItems' = orderItems
                /\ u \in carts => carts' = carts]_vars

\* a row was removed from a cart that keeps its row for the other product
C13_Witness ==
  /\ resp = [op |-> "remove_item", status |-> 200]
  /\ \E u \in Users : Cardinality(ItemsOf(u)) = 1

\* C14: clear_cart always answers with success (204) and leaves the
\* caller's cart without rows, the Cart row in place; on a cart that is
\* already empty it changes nothing, so a second clear_cart leaves the
\* state the first one left
C14_ClearCart ==
  [][\A u \in Users :
        (resp'.op = "clear_cart" /\ ClearCart(u))
        => ( /\ resp'.status = 204
             /\ ItemsAfter(u) = {}
             /\ u \in carts'
             /\ (u \in carts /\ ItemsOf(u) = {}) => db' = db )]_vars

\* a cart was cleared while the other customer's cart holds a row
C14_Witness ==
  /\ resp = [op |-> "clear_cart", status |-> 204]
  /\ cartItems # {}
  /\ \E u \in carts : ItemsOf(u) = {}

\* ------------------------------------------------------- authentication
\* the Cart rows of user u
CartsOf(u) == {c \in carts : c = u}

\* C15: a successful registration leaves exactly one Cart for the new user,
\* without items; and in every later state, whatever cart requests and
\* checkouts followed, every registered user has exactly one Cart
C15_OneCartPerUser ==
  /\ [](\A u \in Registered : Cardinality(CartsOf(u)) = 1)
  /\ [][\A un \in Users, em \in Emails, pw \in Passwords :
          ( /\ resp'.op = "register"
            /\ resp'.status = 201
            /\ Register(un, em, pw, pw) )
          => ( /\ un \in Registered'
               /\ Cardinality({c \in carts' : c = un}) = 1
               /\ ItemsAfter(un) = {} )]_vars

\* a customer who registered has checked out and filled the cart again
C15_Witness ==
  \E u \in Registered :
    /\ u \in carts
    /\ \E o \in orders : o.user = u
    /\ ItemsOf(u) # {}

\* C16: a registration request whose passwords differ, or whose username or
\* email a User row already has, answers 400 and stores no User and no Cart;
\* so no two User rows share a username or an email
C16_RegistrationRejects ==
  /\ [](\A a, b \in accounts :
          (a.username = b.username \/ a.email = b.email) => a = b)
  /\ [][\A un \in Users, em \in Emails, pw \in Passwords, cpw \in Passwords :
          ( /\ resp'.op = "register"
            /\ Register(un, em, pw, cpw)
            /\ \/ pw # cpw
               \/ \E a \in accounts : a.username = un \/ a.email = em )
          => ( /\ resp'.status = 400
               /\ accounts' = accounts
               /\ carts' = carts )]_vars

\* with two customers registered, a registration was refused
C16_Witness ==
  /\ resp = [op |-> "register", status |-> 400]
  /\ Cardinality(accounts) = 2

\* C17: a login request is answered with a token pair only if it carries
\* exactly one of username and email, that one is a user's and the password
\* is that user's, and the tokens are that user's; a request with both
\* identifiers, with neither, or with a password that is not the user's
\* answers 400 without tokens
C17_Login ==
  [][\A un \in Users \cup {NoInput}, em \in Emails \cup {NoInput},
        pw \in Passwords :
        (resp'.op = "login" /\ Login(un, em, pw))
        => LET one   == (un = NoInput) # (em = NoInput)
               users == {a \in accounts :
                           /\ a.username = un \/ a.email = em
                           /\ a.password = pw}
           IN  /\ resp'.status = 200 =>
                    ( /\ one
                      /\ \E a \in users :
                           resp' = TokenResponse("login", 200, a.username) )
               /\ (~one \/ users = {}) =>
                    resp' = [op |-> "login", status |-> 400]
               /\ accounts' = accounts ]_vars

\* a customer logged in while another customer holds the same password
C17_Witness ==
  /\ resp.op = "login"
  /\ resp.status = 200
  /\ \E a, b \in accounts :
       /\ a # b
       /\ a.password = b.password
       /\ resp.access = a.username

\* ---------------------------------------------------------- permissions
\* a step of a request without credentials to a cart, order or product
\* endpoint
AnonymousRequest ==
  \/ resp'.op = "retrieve" /\ RetrieveRequest(Anonymous)
  \/ /\ resp'.op = "add_item"
     /\ \E p \in Products, q \in Qtys : AddItemRequest(Anonymous, p, q)
  \/ /\ resp'.op \in {"increment", "decrement", "other"}
     /\ \E p \in Products, a \in AdjustInputs :
          AdjustItemRequest(Anonymous, p, a.action, a.change_by)
  \/ /\ resp'.op = "remove_item"
     /\ \E p \in Products \cup {"none"} : RemoveItemRequest(Anonymous, p)
  \/ resp'.op = "clear_cart" /\ ClearCartRequest(Anonymous)
  \/ resp'.op = "checkout" /\ CheckoutRequest(Anonymous)
  \/ resp'.op = "order_list" /\ OrderListRequest(Anonymous)
  \/ /\ resp'.op = "order_retrieve"
     /\ \E id \in OrderIds : OrderRetrieveRequest(Anonymous, id)
  \/ /\ resp'.op = "order_update"
     /\ \E a \in {"update", "partial_update"}, id \in OrderIds,
           st \in Statuses : OrderUpdateRequest(Anonymous, a, id, st)
  \/ /\ resp'.op = "order_destroy"
     /\ \E id \in OrderIds : OrderDestroyRequest(Anonymous, id)
  \/ resp'.op = "product_list" /\ ProductListRequest(Anonymous)
  \/ /\ resp'.op = "product_retrieve"
     /\ \E p \in Products : ProductRetrieveRequest(Anonymous, p)
  \/ /\ resp'.op = "product_create"
     /\ \E p \in Products, d \in ProductInputs :
          ProductCreateRequest(Anonymous, p, d.price, d.stock)
  \/ /\ resp'.op = "product_update"
     /\ \E a \in {"update", "partial_update"}, p \in Products,
           d \in ProductInputs :
          ProductUpdateRequest(Anonymous, a, p, d.price, d.stock)
  \/ /\ resp'.op = "product_destroy"
     /\ \E p \in Products : ProductDestroyRequest(Anonymous, p)

\* a step of a product create, update, partial_update or destroy request
\* of caller c
ProductWriteRequest(c) ==
  \/ /\ resp'.op = "product_create"
     /\ \E p \in Products, d \in ProductInputs :
          ProductCreateRequest(c, p, d.price, d.stock)
  \/ /\ resp'.op = "product_update"
     /\ \E a \in {"update", "partial_update"}, p \in Products,
           d \in ProductInputs :
          ProductUpdateRequest(c, a, p, d.price, d.stock)
  \/ /\ resp'.op = "product_destroy"
     /\ \E p \in Products : ProductDestroyRequest(c, p)

\* C18: every request without credentials to a cart, order or product
\* endpoint answers 401, every product create, update, partial_update or
\* destroy request of an authenticated customer answers 403, and both leave
\* the products, carts, cart items and orders as they were
C18_PermissionDenied ==
  [][ /\ AnonymousRequest => (resp'.status = 401 /\ db' = db)
      /\ \A u \in Registered :
           ProductWriteRequest(u) => (resp'.status = 403 /\ db' = db) ]_vars

\* a customer's request to delete a product of the catalog was refused
C18_Witness ==
  /\ resp = [op |-> "product_destroy", status |-> 403]
  /\ \E p \in Products : Exists(p)

\* ---------------------------------------------------------------- scope
\* a step of a cart request or a checkout of customer u
CustomerStep(u) ==
  \/ resp'.op = "retrieve" /\ RetrieveRequest(u)
  \/ /\ resp'.op = "add_item"
     /\ \E p \in Products, q \in Qtys : AddItemRequest(u, p, q)
  \/ /\ resp'.op \in {"increment", "decrement", "other"}
     /\ \E p \in Products, a \in AdjustInputs :
          AdjustItemRequest(u, p, a.action, a.change_by)
  \/ /\ resp'.op = "remove_item"
     /\ \E p \in Products \cup {"none"} : RemoveItemRequest(u, p)
  \/ resp'.op = "clear_cart" /\ ClearCartRequest(u)
  \/ resp'.op = "checkout" /\ CheckoutRequest(u)

\* C19: a cart request or checkout of customer u leaves the cart rows of
\* every other customer as they were; an order list of u returns exactly
\* the orders whose user is u, an order retrieve of u answers 200 with the
\* order when it is u's and 404 otherwise; staff list every order and
\* retrieve every order that exists
C19_CallerScope ==
  [][ /\ \A u \in Users :
           /\ CustomerStep(u) =>
                \A v \in Users \ {u} : ItemsAfter(v) = ItemsOf(v)
           /\ (resp'.op = "order_list" /\ OrderListRequest(u)) =>
                resp' = [op |-> "order_list", status |-> 200,
                         orders |-> {o.id : o \in {x \in orders : x.user = u}}]
           /\ \A id \in OrderIds :
                (resp'.op = "order_retrieve" /\ OrderRetrieveRequest(u, id)) =>
                  resp' = IF \E o \in orders : o.id = id /\ o.user = u
                          THEN [op |-> "order_retrieve", status |-> 200,
                                orders |-> {id}]
                          ELSE [op |-> "order_retrieve", status |-> 404]
      /\ (resp'.op = "order_list" /\ OrderListRequest(Staff)) =>
           resp' = [op |-> "order_list", status |-> 200,
                    orders |-> {o.id : o \in orders}]
      /\ \A id \in OrderIds :
           (resp'.op = "order_retrieve" /\ OrderRetrieveRequest(Staff, id)) =>
             resp' = IF \E o \in orders : o.id = id
                     THEN [op |-> "order_retrieve", status |-> 200,
                           orders |-> {id}]
                     ELSE [op |-> "order_retrieve", status |-> 404] ]_vars

\* a customer asked for the order of the other customer, whose cart holds a
\* row again
C19_Witness ==
  /\ resp = [op |-> "order_retrieve", status |-> 404]
  /\ \E o \in orders : o.id \in OrderIds /\ ItemsOf(o.user) # {}

\* C20: an update or partial_update request of staff for an existing order
\* with any status of pending, processing, shipped, delivered, cancelled
\* succeeds and stores that status; the same request of a customer answers
\* 403 and changes no order
C20_StaffSetsStatus ==
  [][\A a \in {"update", "partial_update"}, id \in OrderIds, st \in Statuses :
        /\ ( /\ resp'.op = "order_update"
             /\ \E o \in orders : o.id = id
             /\ OrderUpdateRequest(Staff, a, id, st) )
           => ( /\ resp'.status = 200
                /\ \E o \in orders' : o.id = id /\ o.status = st )
        /\ \A u \in Users :
             (resp'.op = "order_update" /\ OrderUpdateRequest(u, a, id, st))
             => (resp'.status = 403 /\ orders' = orders) ]_vars

\* --------------------------------------------------- the order record
\* the product names and quantities of the OrderItems of order id
OrderLines(rows, id) ==
  {[product_name |-> oi.product_name, quantity |-> oi.quantity] :
     oi \in {x \in rows : x.order = id}}

\* C21: orders and their items are append-only: whatever request follows
\* (cart operations, checkouts, order update or destroy requests of any
\* caller), every stored Order is still stored afterwards, with the same set
\* of OrderItems and the same quantities
C21_OrdersAppendOnly ==
  [][\A o \in orders :
        /\ \E kept \in orders' : kept.id = o.id
        /\ OrderLines(orderItems', o.id) = OrderLines(orderItems, o.id)]_vars

\* what an OrderItem records of the purchase
Snapshot(oi) ==
  [order |-> oi.order, product_name |-> oi.product_name,
   quantity |-> oi.quantity, price_at_order |-> oi.price_at_order]

RECURSIVE Subtotals(_)
Subtotals(rows) ==
  IF rows = {} THEN 0
  ELSE LET oi == CHOOSE x \in rows : TRUE
       IN  oi.quantity * oi.price_at_order + Subtotals(rows \ {oi})

\* C22: a staff request that re-prices, renames or deletes a product leaves
\* the product_name, price_at_order and quantity of every OrderItem and
\* every Order row as they were, and every Order's total_amount is the sum
\* of quantity * price_at_order over its OrderItems
C22_SnapshotsKept ==
  /\ [](\A o \in orders :
          o.total_amount =
            Subtotals({oi \in orderItems : oi.order = o.id}))
  /\ [][resp'.op \in {"product_update", "product_rename", "product_destroy"}
          => /\ orders' = orders
             /\ {Snapshot(oi) : oi \in orderItems'} =
                  {Snapshot(oi) : oi \in orderItems}]_vars

\* an order of two products: one has since been renamed and re-priced, the
\* other deleted
C22_Witness ==
  /\ resp.op = "product_destroy"
  /\ \E a \in orderItems, b \in orderItems :
       /\ a.order = b.order
       /\ a.product # "none" /\ Exists(a.product)
       /\ ProductName(a.product) # a.product_name
       /\ products[a.product].price # a.price_at_order
       /\ b.product = "none"

\* ------------------------------------------------ overlapping requests
RECURSIVE Quantities(_)
Quantities(rows) ==
  IF rows = {} THEN 0
  ELSE LET oi == CHOOSE x \in rows : TRUE
       IN  oi.quantity + Quantities(rows \ {oi})

\* the quantity of product p that has been ordered so far
Ordered(p) == Quantities({oi \in orderItems : oi.product = p})

\* C23: stock is never oversold: however the checkouts of different
\* customers interleave, and with no staff request, the stock left of a
\* product plus the quantity ordered of it is the stock it started with
C23_NeverOversold ==
  \A p \in Products :
    Exists(p) => /\ Ordered(p) <= MaxStock
                 /\ products[p].stock + Ordered(p) = MaxStock

\* workers v and w have answered 200 to two add_item requests for the same
\* cart and product that read the same row
ReadTheSame(v, w) ==
  /\ v # w
  /\ adds[v].pc = "done" /\ adds[v].status = 200
  /\ adds[w].pc = "done" /\ adds[w].status = 200
  /\ adds[v].user = adds[w].user
  /\ adds[v].product_id = adds[w].product_id
  /\ adds[v].read >= 1
  /\ adds[v].read = adds[w].read

\* C24: two overlapping add_item requests of one user for one product lose
\* an update: when both read the row at quantity q and both answer 200, one
\* adding a and the other b, the row afterwards holds q + a or q + b, never
\* q + a + b
C24_AddItemLostUpdate ==
  \A v \in Workers, w \in Workers :
    ReadTheSame(v, w)
    => LET stored == ItemOf(adds[v].user, adds[v].product_id).quantity
       IN  /\ stored \in {adds[v].read + adds[v].quantity,
                           adds[w].read + adds[w].quantity}
           /\ stored < adds[v].read + adds[v].quantity + adds[w].quantity

\* both requests answered 200 on a stock that covers q + a + b, and the row
\* holds less
C24_Witness ==
  \E v \in Workers, w \in Workers :
    /\ ReadTheSame(v, w)
    /\ products[adds[v].product_id].stock >=
         adds[v].read + adds[v].quantity + adds[w].quantity
    /\ ItemOf(adds[v].user, adds[v].product_id).quantity
         < adds[v].read + adds[v].quantity + adds[w].quantity

\* C25: once the check loop of a checkout has passed for every item, every
\* reduce_stock call of that checkout succeeds, whatever requests were served
\* between the check and the call
C25_ReduceStockSucceeds ==
  [][\A u \in Users :
        (txn[u].pc = "write" /\ txn'[u].pc = "idle")
        => \A ci \in txn[u].items :
             reduce_stock(txn[u].inst[ci.product_id], ci.quantity)
               # StockError]_vars

\* a checkout has answered 201 and more units are ordered than the product
\* ever had: a reduce_stock call succeeded on a row that held less than the
\* quantity
C25_Witness ==
  /\ resp = [op |-> "checkout", status |-> 201]
  /\ \A u \in Users : txn[u].pc = "idle"
  /\ Ordered("p1") > MaxStock

\* ------------------------------------------------------- registration
\* C26: registration is not atomic with the creation of the cart: when
\* Cart.objects.create fails, the request fails (500) and the User row that
\* was saved before stays stored, without a Cart row
C26_UserKeptWithoutCart ==
  [][(resp'.op = "register" /\ resp'.status = 500)
       => /\ carts' = carts
          /\ \E a \in accounts' \ accounts :
               /\ accounts' = accounts \cup {a}
               /\ a.username \notin carts']_vars

\* the registration has failed and the user is stored without a cart
C26_Witness ==
  /\ resp = [op |-> "register", status |-> 500]
  /\ \E a \in accounts : a.username \notin carts

\* ------------------------------------------- checkout and cart requests
\* C27: a successful checkout removes from the cart only what it ordered:
\* whatever add_item requests were served while it was in flight, every
\* CartItem row it deletes has an OrderItem of the new order with the same
\* product and the same quantity
C27_DeletesOnlyOrdered ==
  [][\A u \in Users :
        ( /\ resp'.op = "checkout" /\ resp'.status = 201
          /\ txn[u].pc = "write" /\ txn'[u].pc = "idle" )
        => \A ci \in cartItems \ cartItems' :
             \E oi \in orderItems' \ orderItems :
               oi.product = ci.product_id /\ oi.quantity = ci.quantity]_vars

\* the step answers a checkout request of u
CheckoutAnswered(u) ==
  /\ resp'.op = "checkout"
  /\ \/ txn[u].pc # "idle" /\ txn'[u].pc = "idle"
     \/ txn[u].pc = "idle" /\ CheckoutBegin(u)
     \/ Checkout(u)

\* C28: a cart's contents are ordered at most once: when a customer sends
\* checkout requests and no cart request in between, at most one Order of
\* that customer is created, and a checkout answered after the order exists
\* fails with the empty-cart error (400) and changes no row, so no stock is
\* decremented a second time
C28_OrderedAtMostOnce ==
  /\ [](\A u \in Users : Cardinality({o \in orders : o.user = u}) <= 1)
  /\ [][\A u \in Users :
          (CheckoutAnswered(u) /\ \E o \in orders : o.user = u)
          => (resp'.status = 400 /\ UNCHANGED db)]_vars
====
